---- MODULE Spec2Model ----
(***************************************************************************)
(* Model of satosa.satosa_config.SATOSAConfig: construction (load, overlay *)
(* of sensitive values from the environment, validation, resolution of     *)
(* INTERNAL_ATTRIBUTES) and the attribute read / write / iteration         *)
(* wrappers over the internal mapping.                                     *)
(*                                                                         *)
(* Python values are tokens (strings).  Mutable top-level mappings are     *)
(* objects of a heap, named by a reference token; nested mappings, which   *)
(* the class never mutates, are mapping literals.                          *)
(***************************************************************************)
EXTENDS Naturals, FiniteSets, TLC

VARIABLES
    heap,       \* reference -> contents (key -> value) of each live dict object
    obj,        \* instance -> its __dict__["_config"] ("None": not constructed)
    env,        \* os.environ restricted to the SATOSA_<key> variables
    document,   \* the contents of the caller's configuration as first written
    nwrites,    \* number of attribute writes performed so far
    ret         \* the last call: operation, receiver, argument and outcome

vars == <<heap, obj, env, document, nwrites, ret>>

\* Bound on the number of attribute writes explored.
MaxWrites == 1

-----------------------------------------------------------------------------
(* Class attributes                                                         *)

sensitive_dict_keys == {"STATE_ENCRYPTION_KEY", "USER_ID_HASH_SALT"}

mandatory_dict_keys ==
    {"BASE", "BACKEND_MODULES", "FRONTEND_MODULES",
     "INTERNAL_ATTRIBUTES", "COOKIE_STATE_NAME"} \cup sensitive_dict_keys

\* Names that ordinary attribute lookup finds on the class, so that
\* __getattr__ is never consulted for them (one representative).
ClassAttrs == {"sensitive_dict_keys"}

\* The value ordinary lookup returns for a class attribute.
ClassValue(name) == "[STATE_ENCRYPTION_KEY, USER_ID_HASH_SALT]"

-----------------------------------------------------------------------------
(* The universe of values                                                   *)

Instances == {"a", "b"}

\* The caller's dict object and the dict each instance gets from a YAML load.
NewDict(i) == IF i = "a" THEN "dict_a" ELSE "dict_b"
DictObjs == {"M"} \cup {NewDict(i) : i \in Instances}

\* Nested mappings: the empty one, an attribute mapping, and the mapping a
\* top-level configuration document parses to.
MapLits == {"{}", "{attributes}", "{config}"}

\* isinstance(v, dict)
IsDict(v) == v \in DictObjs \cup MapLits

\* isinstance(v, str), of the values the loaders are given
IsStr(v) == ~IsDict(v) /\ v # "None"

\* bool(v) of a value that is no heap object
Truthy(v) == v \notin {"None", "", "{}"}

\* The files that exist, with their text.
FileSystem ==
    [x \in {"config.yaml", "attrs.yaml", "empty.yaml", "bad.yaml",
            "emptymap.yaml", "scalar.yaml"} |->
        CASE x = "config.yaml"   -> "<config document>"
          [] x = "attrs.yaml"    -> "attributes: {mail: {saml: [email]}}"
          [] x = "empty.yaml"    -> ""
          [] x = "bad.yaml"      -> "attributes: [unclosed"
          [] x = "emptymap.yaml" -> "{}"
          [] x = "scalar.yaml"   -> "just a sentence"]

\* yaml.safe_load(text): the parsed value, or YAMLError.
safe_load(text) ==
    CASE text = "<config document>"                   -> [exc |-> "", val |-> "{config}"]
      [] text = "attributes: {mail: {saml: [email]}}" -> [exc |-> "", val |-> "{attributes}"]
      [] text = ""                                    -> [exc |-> "", val |-> "None"]
      [] text = "{}"                                  -> [exc |-> "", val |-> "{}"]
      [] text = "just a sentence"                     -> [exc |-> "", val |-> "just a sentence"]
      [] OTHER                                        -> [exc |-> "YAMLError", val |-> "None"]

\* The keys and values of a mapping literal.
MapContent(lit) ==
    CASE lit = "{config}"     -> document
      [] lit = "{attributes}" -> [k \in {"attributes"} |-> "{mail: {saml: [email]}}"]
      [] OTHER                -> [k \in {} |-> "None"]

\* d[k] = v on a mapping's contents
Put(d, k, v) == [x \in DOMAIN d \cup {k} |-> IF x = k THEN v ELSE d[x]]

-----------------------------------------------------------------------------
(* Loaders                                                                  *)

\* _load_dict: the very object it is given when that is a dict, else None.
_load_dict(config) == IF IsDict(config) THEN config ELSE "None"

\* _load_yaml with every error of the read caught, not only yaml.YAMLError:
\* a missing file becomes a miss.
_load_yaml_CatchAll(config_file) ==
    IF ~IsStr(config_file) \/ config_file \notin DOMAIN FileSystem
    THEN [exc |-> "", val |-> "None"]
    ELSE LET y == safe_load(FileSystem[config_file])
         IN  IF y.exc = "YAMLError" THEN [exc |-> "", val |-> "None"] ELSE y

\* _load_yaml: open() raises for a non-path (TypeError) or a missing file
\* (FileNotFoundError); only yaml.YAMLError is caught and turned into None.
_load_yaml(config_file) ==
    IF ~IsStr(config_file) THEN [exc |-> "TypeError", val |-> "None"]
    ELSE IF config_file \notin DOMAIN FileSystem
         THEN [exc |-> "FileNotFoundError", val |-> "None"]
    ELSE LET y == safe_load(FileSystem[config_file])
         IN  IF y.exc = "YAMLError" THEN [exc |-> "", val |-> "None"] ELSE y

\* The first loop of __init__: try _load_dict, then _load_yaml, and bind
\* the result to _config.  A mapping parsed from text is a new dict object.
LoadConfig(i, config, h) ==
    LET d == _load_dict(config) IN
    IF d # "None" THEN [exc |-> "", cfg |-> d, heap |-> h]
    ELSE LET y == _load_yaml(config) IN
         IF y.exc # "" THEN [exc |-> y.exc, cfg |-> "None", heap |-> h]
         ELSE IF y.val \in MapLits
              THEN [exc |-> "", cfg |-> NewDict(i),
                    heap |-> Put(h, NewDict(i), MapContent(y.val))]
              ELSE [exc |-> "", cfg |-> y.val, heap |-> h]

-----------------------------------------------------------------------------
(* Environment overlay                                                      *)

\* The overlay with "if val is not None": a variable set to the empty string
\* overwrites too.
Overlay_IfNotNone(cfg, h) ==
    LET set == {k \in sensitive_dict_keys : env[k] # "None"} IN
    IF set = {} THEN [exc |-> "", heap |-> h]
    ELSE IF cfg \notin DOMAIN h THEN [exc |-> "TypeError", heap |-> h]
    ELSE [exc |-> "",
          heap |-> [h EXCEPT ![cfg] =
                      [k \in DOMAIN @ \cup set |->
                          IF k \in set THEN env[k] ELSE @[k]]]]

\* The overlay with setdefault: a variable fills a gap but never overwrites.
Overlay_FillGapsOnly(cfg, h) ==
    LET set == {k \in sensitive_dict_keys : Truthy(env[k])} IN
    IF set = {} THEN [exc |-> "", heap |-> h]
    ELSE IF cfg \notin DOMAIN h THEN [exc |-> "TypeError", heap |-> h]
    ELSE [exc |-> "",
          heap |-> [h EXCEPT ![cfg] =
                      [k \in DOMAIN @ \cup set |->
                          IF k \in DOMAIN @ THEN @[k] ELSE env[k]]]]

\* for key in sensitive_dict_keys: val = os.environ.get(...); if val:
\* self._config[key] = val.  Item assignment on None or on a str raises
\* TypeError.
Overlay(cfg, h) ==
    LET set == {k \in sensitive_dict_keys : Truthy(env[k])} IN
    IF set = {} THEN [exc |-> "", heap |-> h]
    ELSE IF cfg \notin DOMAIN h THEN [exc |-> "TypeError", heap |-> h]
    ELSE [exc |-> "",
          heap |-> [h EXCEPT ![cfg] =
                      [k \in DOMAIN @ \cup set |->
                          IF k \in set THEN env[k] ELSE @[k]]]]

-----------------------------------------------------------------------------
(* Validation                                                               *)

\* not conf
Falsy(conf, h) ==
    IF conf \in DOMAIN h THEN DOMAIN h[conf] = {} ELSE ~Truthy(conf)

\* the keys k with "k in conf" (no key name is a substring of a scalar here)
KeysIn(conf, h) == IF conf \in DOMAIN h THEN DOMAIN h[conf] ELSE {}

\* The validation without the loop over the mandatory keys.
_verify_dict_EmptinessOnly(conf, h) ==
    IF Falsy(conf, h)
    THEN [exc |-> "ValueError", msg |-> "Missing configuration or unknown format"]
    ELSE [exc |-> "", msg |-> ""]

_verify_dict(conf, h) ==
    IF Falsy(conf, h)
    THEN [exc |-> "ValueError", msg |-> "Missing configuration or unknown format"]
    ELSE IF \E key \in mandatory_dict_keys : key \notin KeysIn(conf, h)
         THEN [exc |-> "ValueError", msg |-> "Missing key in config"]
         ELSE [exc |-> "", msg |-> ""]

-----------------------------------------------------------------------------
(* Resolution of INTERNAL_ATTRIBUTES                                        *)

\* The resolution that loads INTERNAL_ATTRIBUTES but does not store the
\* result.
ResolveInternalAttributes_KeepReference(cfg, h) ==
    IF cfg \notin DOMAIN h
    THEN [exc |-> "TypeError", msg |-> "", heap |-> h]
    ELSE IF "INTERNAL_ATTRIBUTES" \notin DOMAIN h[cfg]
    THEN [exc |-> "KeyError", msg |-> "", heap |-> h]
    ELSE
    LET ia == h[cfg]["INTERNAL_ATTRIBUTES"]
        d  == _load_dict(ia)
        y  == _load_yaml(ia)
    IN  IF d = "None" /\ y.exc # ""
        THEN [exc |-> y.exc, msg |-> "", heap |-> h]
        ELSE IF ~Truthy(ia)
        THEN [exc |-> "SATOSAConfigurationError",
              msg |-> "Coudl not load attribute mapping from 'INTERNAL_ATTRIBUTES.",
              heap |-> h]
        ELSE [exc |-> "", msg |-> "", heap |-> h]

\* The resolution without the final emptiness test.
ResolveInternalAttributes_NoEmptinessTest(cfg, h) ==
    IF cfg \notin DOMAIN h
    THEN [exc |-> "TypeError", msg |-> "", heap |-> h]
    ELSE IF "INTERNAL_ATTRIBUTES" \notin DOMAIN h[cfg]
    THEN [exc |-> "KeyError", msg |-> "", heap |-> h]
    ELSE
    LET ia == h[cfg]["INTERNAL_ATTRIBUTES"]
        d  == _load_dict(ia)
        y  == _load_yaml(ia)
        stored == IF d # "None" THEN d
                  ELSE IF y.val # "None" THEN y.val
                  ELSE ia
    IN  IF d = "None" /\ y.exc # ""
        THEN [exc |-> y.exc, msg |-> "", heap |-> h]
        ELSE [exc |-> "", msg |-> "",
              heap |-> [h EXCEPT ![cfg]["INTERNAL_ATTRIBUTES"] = stored]]

\* The second loop of __init__ and the final emptiness test.
ResolveInternalAttributes(cfg, h) ==
    IF cfg \notin DOMAIN h
    THEN [exc |-> "TypeError", msg |-> "", heap |-> h]
    ELSE IF "INTERNAL_ATTRIBUTES" \notin DOMAIN h[cfg]
    THEN [exc |-> "KeyError", msg |-> "", heap |-> h]
    ELSE
    LET ia == h[cfg]["INTERNAL_ATTRIBUTES"]
        d  == _load_dict(ia)
        y  == _load_yaml(ia)
        stored == IF d # "None" THEN d
                  ELSE IF y.val # "None" THEN y.val
                  ELSE ia
    IN  IF d = "None" /\ y.exc # ""
        THEN [exc |-> y.exc, msg |-> "", heap |-> h]
        ELSE IF ~Truthy(stored)
        THEN [exc |-> "SATOSAConfigurationError",
              msg |-> "Coudl not load attribute mapping from 'INTERNAL_ATTRIBUTES.",
              heap |-> [h EXCEPT ![cfg]["INTERNAL_ATTRIBUTES"] = stored]]
        ELSE [exc |-> "", msg |-> "",
              heap |-> [h EXCEPT ![cfg]["INTERNAL_ATTRIBUTES"] = stored]]

-----------------------------------------------------------------------------
(* Construction                                                             *)

\* SATOSAConfig.__init__ as a function of the heap: the exception raised
\* ("" for none), the mapping bound to _config and the heap left behind.
Construct(i, config, h) ==
    LET l == LoadConfig(i, config, h) IN
    IF l.exc # "" THEN [exc |-> l.exc, msg |-> "", cfg |-> "None", heap |-> h]
    ELSE LET o == Overlay(l.cfg, l.heap) IN
    IF o.exc # "" THEN [exc |-> o.exc, msg |-> "", cfg |-> l.cfg, heap |-> o.heap]
    ELSE LET v == _verify_dict(l.cfg, o.heap) IN
    IF v.exc # "" THEN [exc |-> v.exc, msg |-> v.msg, cfg |-> l.cfg, heap |-> o.heap]
    ELSE LET r == ResolveInternalAttributes(l.cfg, o.heap) IN
         [exc |-> r.exc, msg |-> r.msg, cfg |-> l.cfg, heap |-> r.heap]

\* The objects that stay reachable: those that existed, and the new dict of
\* an instance whose construction returned.
Live(h, i, ok) ==
    [r \in {x \in DOMAIN h : x \in DOMAIN heap \/ (ok /\ x = NewDict(i))} |-> h[r]]

\* What a caller may pass: its dict, paths of files, a path of no file and
\* literal YAML text.
Inputs ==
    {"M", "config.yaml", "attrs.yaml", "empty.yaml", "bad.yaml",
     "emptymap.yaml", "scalar.yaml", "nofile.yaml", "BASE: https://proxy"}

NoRet == [op |-> "none", inst |-> "", name |-> "", val |-> "None",
          exc |-> "", msg |-> "", keys |-> {}]

__init__(i, config) ==
    /\ obj[i] = "None"
    /\ LET c == Construct(i, config, heap) IN
       /\ heap' = Live(c.heap, i, c.exc = "")
       /\ obj' = [obj EXCEPT ![i] = IF c.exc = "" THEN c.cfg ELSE "None"]
       /\ ret' = [NoRet EXCEPT !.op = "init", !.inst = i, !.name = config,
                               !.exc = c.exc, !.msg = c.msg]
    /\ UNCHANGED <<env, document, nwrites>>

-----------------------------------------------------------------------------
(* Access wrapper                                                           *)

\* __getattr__ as self._config.get(item): None for an absent key.
__getattr___GetOrNone(i, item) ==
    IF ~Falsy(obj[i], heap) /\ item \in KeysIn(obj[i], heap)
    THEN [exc |-> "", val |-> heap[obj[i]][item]]
    ELSE [exc |-> "", val |-> "None"]

\* __getattr__(item), reached only when ordinary lookup fails.
__getattr__(i, item) ==
    IF ~Falsy(obj[i], heap) /\ item \in KeysIn(obj[i], heap)
    THEN [exc |-> "", val |-> heap[obj[i]][item]]
    ELSE [exc |-> "AttributeError", val |-> "None"]

\* The expression  cfg.<name>  : the instance __dict__, then the class,
\* then __getattr__.
ReadAttr(i, name) ==
    IF name = "_config" THEN [exc |-> "", val |-> obj[i]]
    ELSE IF name \in ClassAttrs THEN [exc |-> "", val |-> ClassValue(name)]
    ELSE __getattr__(i, name)

\* __setattr__(key, value) as a function of the heap.
SetItem(i, key, value, h) ==
    IF key # "_config" /\ obj[i] # "None"
    THEN [h EXCEPT ![obj[i]] = Put(@, key, value)]
    ELSE h

\* __iter__: the keys of the internal mapping.
IterKeys(i) == DOMAIN heap[obj[i]]

AttrNames == mandatory_dict_keys \cup {"EXTRA", "_config"} \cup ClassAttrs

\* The names the model reads and writes: keys present after construction, a
\* key absent from it, the reserved name and a class attribute.
ReadNames ==
    {"BASE", "STATE_ENCRYPTION_KEY", "INTERNAL_ATTRIBUTES", "EXTRA", "_config"}
        \cup ClassAttrs

WriteNames == {"INTERNAL_ATTRIBUTES", "EXTRA", "_config"} \cup ClassAttrs

WriteValues == {"written", "{}"}

getattr(i, name) ==
    /\ obj[i] # "None"
    /\ LET r == ReadAttr(i, name) IN
       ret' = [NoRet EXCEPT !.op = "getattr", !.inst = i, !.name = name,
                            !.val = r.val, !.exc = r.exc]
    /\ UNCHANGED <<heap, obj, env, document, nwrites>>

__setattr__(i, key, value) ==
    /\ obj[i] # "None"
    /\ nwrites < MaxWrites
    /\ heap' = SetItem(i, key, value, heap)
    /\ nwrites' = nwrites + 1
    /\ ret' = [NoRet EXCEPT !.op = "setattr", !.inst = i, !.name = key,
                            !.val = value]
    /\ UNCHANGED <<obj, env, document>>

__iter__(i) ==
    /\ obj[i] # "None"
    /\ ret' = [NoRet EXCEPT !.op = "iter", !.inst = i, !.keys = IterKeys(i)]
    /\ UNCHANGED <<heap, obj, env, document, nwrites>>

-----------------------------------------------------------------------------
(* Specification                                                            *)

\* The values of the configuration as the caller wrote it.
SourceValue ==
    [k \in mandatory_dict_keys |->
        CASE k = "BASE"                 -> "https://proxy"
          [] k = "BACKEND_MODULES"      -> "[backend]"
          [] k = "FRONTEND_MODULES"     -> "[frontend]"
          [] k = "COOKIE_STATE_NAME"    -> "SATOSA_STATE"
          [] k = "STATE_ENCRYPTION_KEY" -> "file_key"
          [] k = "USER_ID_HASH_SALT"    -> "file_salt"
          [] OTHER                      -> "None"]

\* The values INTERNAL_ATTRIBUTES may have in the caller's configuration.
InternalAttributesValues ==
    {"{attributes}", "{}", "attrs.yaml", "empty.yaml", "bad.yaml",
     "emptymap.yaml", "nofile.yaml"}

\* The mandatory keys the caller's configuration may lack.
MissingSets == {{}} \cup {{k} : k \in mandatory_dict_keys}

\* The value of SATOSA_<key>: unset, set but empty, set.
EnvValues(k) ==
    {"None", "", IF k = "STATE_ENCRYPTION_KEY" THEN "env_key" ELSE "env_salt"}

Init ==
    /\ \E missing \in MissingSets, ia \in InternalAttributesValues :
          document = [k \in mandatory_dict_keys \ missing |->
                         IF k = "INTERNAL_ATTRIBUTES" THEN ia ELSE SourceValue[k]]
    /\ heap = [r \in {"M"} |-> document]
    /\ obj = [i \in Instances |-> "None"]
    /\ env \in {e \in [sensitive_dict_keys -> {"None", "", "env_key", "env_salt"}] :
                   \A k \in sensitive_dict_keys : e[k] \in EnvValues(k)}
    /\ nwrites = 0
    /\ ret = NoRet

Next ==
    \/ \E i \in Instances, config \in Inputs : __init__(i, config)
    \/ \E i \in Instances, name \in ReadNames : getattr(i, name)
    \/ \E i \in Instances, key \in WriteNames, value \in WriteValues :
          __setattr__(i, key, value)
    \/ \E i \in Instances : __iter__(i)

Spec == Init /\ [][Next]_vars

-----------------------------------------------------------------------------
(* What a construction starts from                                          *)

\* The input is a mapping, or names a file whose text parses to a mapping.
IsMappingInput(c) ==
    \/ c \in DOMAIN heap
    \/ c \in DOMAIN FileSystem /\ safe_load(FileSystem[c]).val \in MapLits

\* The keys and values the input holds before the overlay.
SourceContent(c) ==
    IF c \in DOMAIN heap THEN heap[c]
    ELSE MapContent(safe_load(FileSystem[c]).val)

\* The sensitive keys whose SATOSA_<key> variable is set and not empty.
EnvSet == {k \in sensitive_dict_keys : Truthy(env[k])}

\* The keys of the top-level configuration after the overlay.
OverlaidKeys(c) == DOMAIN SourceContent(c) \cup EnvSet

\* The input passes the top-level validation.
PassesValidation(c) ==
    IsMappingInput(c) /\ mandatory_dict_keys \subseteq OverlaidKeys(c)

\* Mapping literals that are not empty.
NonEmptyMaps == MapLits \ {"{}"}

\* Paths of documents that parse to a non-empty mapping.
GoodPaths ==
    {p \in DOMAIN FileSystem : safe_load(FileSystem[p]).val \in NonEmptyMaps}

\* Paths of documents that are empty or do not parse.
UnloadablePaths ==
    {p \in DOMAIN FileSystem : safe_load(FileSystem[p]).val = "None"}

\* Names that ordinary attribute lookup resolves before __getattr__.
ShadowedNames == {"_config"} \cup ClassAttrs

\* The exceptions the validation steps of __init__ raise.
ConfigurationErrors == {"ValueError", "SATOSAConfigurationError"}

Constructed(i) == obj[i] # "None"

Config(i) == heap[obj[i]]

\* The step is the call SATOSAConfig(c) for instance i.
InitStep(i, c) ==
    ret'.op = "init" /\ ret'.inst = i /\ ret'.name = c /\ __init__(i, c)

\* The step is the assignment  i.n = x.
SetStep(i, n, x) ==
    ret'.op = "setattr" /\ ret'.inst = i /\ ret'.name = n /\ ret'.val = x
        /\ __setattr__(i, n, x)

-----------------------------------------------------------------------------
(* C1                                                                       *)

\* C1 as stated: constructing from a mapping M that holds every mandatory
\* key succeeds, and reading any key of M returns M's value for it.
C1_ReadsReturnInputValues ==
    [][\A i \in Instances :
         (InitStep(i, "M") /\ mandatory_dict_keys \subseteq DOMAIN heap["M"])
         => /\ ret'.exc = ""
            /\ \A k \in DOMAIN heap["M"] :
                  ReadAttr(i, k)' = [exc |-> "", val |-> heap["M"][k]]]_vars

\* C1 amended: constructing from a mapping M that holds every mandatory key
\* and whose INTERNAL_ATTRIBUTES is a non-empty mapping succeeds; reading a
\* key of M that ordinary lookup does not resolve first returns M's value,
\* except a sensitive key whose SATOSA_ variable is set and not empty, which
\* returns the variable's value.
C1_ReadsReturnInputOrEnvironment ==
    [][\A i \in Instances :
         (/\ InitStep(i, "M")
          /\ mandatory_dict_keys \subseteq DOMAIN heap["M"]
          /\ heap["M"]["INTERNAL_ATTRIBUTES"] \in NonEmptyMaps)
         => /\ ret'.exc = ""
            /\ \A k \in DOMAIN heap["M"] \ ShadowedNames :
                  ReadAttr(i, k)' =
                     [exc |-> "",
                      val |-> IF k \in EnvSet THEN env[k] ELSE heap["M"][k]]]_vars

C1_Witness ==
    /\ ret.op = "init" /\ ret.name = "M" /\ ret.exc = ""
    /\ mandatory_dict_keys \subseteq DOMAIN document
    /\ document["INTERNAL_ATTRIBUTES"] = "{attributes}"
    /\ env["STATE_ENCRYPTION_KEY"] = "env_key"
    /\ env["USER_ID_HASH_SALT"] = ""
    /\ ReadAttr(ret.inst, "STATE_ENCRYPTION_KEY").val = "env_key"
    /\ ReadAttr(ret.inst, "USER_ID_HASH_SALT").val = "file_salt"
    /\ ReadAttr(ret.inst, "BASE").val = "https://proxy"

-----------------------------------------------------------------------------
(* C2                                                                       *)

\* C2 as stated: a top-level configuration that, after the overlay, is not
\* empty but lacks a mandatory key fails with the error kind of the nested
\* attribute-mapping failure (SATOSAConfigurationError).
C2_MissingKeyIsConfigurationError ==
    [][\A i \in Instances, c \in Inputs :
         (/\ InitStep(i, c)
          /\ IsMappingInput(c)
          /\ OverlaidKeys(c) # {}
          /\ ~(mandatory_dict_keys \subseteq OverlaidKeys(c)))
         => ret'.exc = "SATOSAConfigurationError"]_vars

\* C2 amended: such a configuration fails with ValueError and the
\* missing-key message, a kind other than the SATOSAConfigurationError of the
\* nested failure, and no instance results.
C2_MissingKeyIsValueError ==
    [][\A i \in Instances, c \in Inputs :
         (/\ InitStep(i, c)
          /\ IsMappingInput(c)
          /\ OverlaidKeys(c) # {}
          /\ ~(mandatory_dict_keys \subseteq OverlaidKeys(c)))
         => /\ ret'.exc = "ValueError"
            /\ ret'.msg = "Missing key in config"
            /\ ~Constructed(i)']_vars

C2_Witness ==
    /\ ret.op = "init" /\ ret.name = "config.yaml"
    /\ ret.exc = "ValueError" /\ ret.msg = "Missing key in config"
    /\ "BASE" \notin DOMAIN document
    /\ EnvSet = sensitive_dict_keys

-----------------------------------------------------------------------------
(* C3                                                                       *)

\* Nothing is loaded from the input: it is no mapping, and its text does not
\* parse or parses to nothing or to an empty mapping.
NothingLoaded(c) ==
    /\ c \notin DOMAIN heap
    /\ c \in DOMAIN FileSystem
    /\ safe_load(FileSystem[c]).val \in {"None", "{}"}

\* C3: when no loading strategy produces a configuration, construction
\* fails with the validator's configuration error whatever the environment
\* holds (ValueError, which the validator raises, counts as that error).
C3_NothingLoadedIsConfigurationError ==
    [][\A i \in Instances, c \in Inputs :
         (InitStep(i, c) /\ NothingLoaded(c))
         => ret'.exc \in ConfigurationErrors]_vars

-----------------------------------------------------------------------------
(* C4                                                                       *)

\* C4: after a successful construction each sensitive key holds the value
\* of its SATOSA_ variable when that is set and not empty, whether or not
\* the source had the key, and the value loaded from the source otherwise.
C4_OverlayWinsWhenSet ==
    [][\A i \in Instances, c \in Inputs :
         (InitStep(i, c) /\ ret'.exc = "")
         => \A k \in sensitive_dict_keys :
               Config(i)'[k] =
                  IF Truthy(env[k]) THEN env[k] ELSE SourceContent(c)[k]]_vars

C4_Witness ==
    /\ ret.op = "init" /\ ret.name = "config.yaml" /\ ret.exc = ""
    /\ "STATE_ENCRYPTION_KEY" \notin DOMAIN document
    /\ Config(ret.inst)["STATE_ENCRYPTION_KEY"] = "env_key"
    /\ env["USER_ID_HASH_SALT"] = "env_salt"
    /\ document["USER_ID_HASH_SALT"] = "file_salt"
    /\ Config(ret.inst)["USER_ID_HASH_SALT"] = "env_salt"

-----------------------------------------------------------------------------
(* C5                                                                       *)

\* C5: a configuration that passes validation and whose INTERNAL_ATTRIBUTES
\* is the path of an empty or unparsable document fails with the
\* configuration error.
C5_UnloadableAttributesFail ==
    [][\A i \in Instances, c \in Inputs :
         (/\ InitStep(i, c)
          /\ PassesValidation(c)
          /\ SourceContent(c)["INTERNAL_ATTRIBUTES"] \in UnloadablePaths)
         => ret'.exc \in ConfigurationErrors]_vars

-----------------------------------------------------------------------------
(* C6                                                                       *)

\* C6: for a configuration that passes validation, INTERNAL_ATTRIBUTES given
\* as the path of a document holding a non-empty mapping makes construction
\* succeed and store the parsed mapping in place of the path, and
\* INTERNAL_ATTRIBUTES given as a non-empty mapping is kept as it is.
C6_AttributesResolved ==
    [][\A i \in Instances, c \in Inputs :
         (InitStep(i, c) /\ PassesValidation(c))
         => LET ia == SourceContent(c)["INTERNAL_ATTRIBUTES"] IN
            /\ ia \in GoodPaths
                 => /\ ret'.exc = ""
                    /\ Config(i)'["INTERNAL_ATTRIBUTES"] = safe_load(FileSystem[ia]).val
                    /\ Config(i)'["INTERNAL_ATTRIBUTES"] # ia
            /\ ia \in NonEmptyMaps
                 => /\ ret'.exc = ""
                    /\ Config(i)'["INTERNAL_ATTRIBUTES"] = ia]_vars

C6_Witness ==
    /\ ret.op = "init" /\ ret.exc = ""
    /\ document["INTERNAL_ATTRIBUTES"] = "attrs.yaml"
    /\ Config(ret.inst)["INTERNAL_ATTRIBUTES"] = "{attributes}"

-----------------------------------------------------------------------------
(* C7                                                                       *)

-----------------------------------------------------------------------------
(* C8                                                                       *)

\* The three parts of C8 for the names in N, over one step.
ReadWriteLaw(N) ==
    \A i \in Instances :
       /\ \A n \in N :
             (Constructed(i)' /\ n \notin DOMAIN Config(i)')
             => ReadAttr(i, n)'.exc = "AttributeError"
       /\ \A n \in N, x \in WriteValues :
             SetStep(i, n, x) => ReadAttr(i, n)' = [exc |-> "", val |-> x]
       /\ \A x \in WriteValues :
             SetStep(i, "_config", x) => heap' = heap

\* C8 as stated: for every name but the reserved one, reading a name absent
\* from the mapping raises AttributeError and a write followed by a read
\* returns the written value; a write to the reserved name changes nothing.
C8_EveryNameButReserved ==
    [][ReadWriteLaw((AttrNames \cup ClassAttrs) \ {"_config"})]_vars

\* C8 amended: the same for every name that is neither the reserved one nor
\* defined on the class.
C8_EveryUnshadowedName ==
    [][ReadWriteLaw(AttrNames \ ShadowedNames)]_vars

C8_Witness ==
    /\ ret.op = "setattr" /\ ret.name = "EXTRA" /\ ret.val = "written"
    /\ "EXTRA" \notin DOMAIN document
    /\ ReadAttr(ret.inst, "EXTRA") = [exc |-> "", val |-> "written"]

-----------------------------------------------------------------------------
(* C9                                                                       *)

\* C9: of two instances constructed from the same input mapping, no write
\* to one and no construction of one changes what the other reads or
\* iterates.
C9_InstancesIndependent ==
    [][\A i \in Instances : \A j \in Instances \ {i} :
         (/\ obj[j] = "M"
          /\ \/ InitStep(i, "M")
             \/ /\ obj[i] = "M"
                /\ \E n \in WriteNames, x \in WriteValues : SetStep(i, n, x))
         => /\ \A n \in AttrNames : ReadAttr(j, n)' = ReadAttr(j, n)
            /\ IterKeys(j)' = IterKeys(j)]_vars

-----------------------------------------------------------------------------
(* C10                                                                      *)

\* What C10 says of every constructed instance but the INTERNAL_ATTRIBUTES
\* part: a non-empty mapping with every mandatory key, whose keys are what
\* iteration yields.
MappingValid(i) ==
    /\ DOMAIN Config(i) # {}
    /\ mandatory_dict_keys \subseteq DOMAIN Config(i)
    /\ (ret.op = "iter" /\ ret.inst = i) => ret.keys = DOMAIN Config(i)

InternalAttributesLoaded(i) == Truthy(Config(i)["INTERNAL_ATTRIBUTES"])

\* C10 as stated: in every state after a successful construction, attribute
\* writes included, the mapping is valid and INTERNAL_ATTRIBUTES is not
\* empty.
C10_AlwaysValid ==
    \A i \in Instances :
       Constructed(i) => MappingValid(i) /\ InternalAttributesLoaded(i)

\* C10 amended: the mapping stays valid, and INTERNAL_ATTRIBUTES is not
\* empty when construction returns and stays so until an attribute write
\* stores an empty value at INTERNAL_ATTRIBUTES.
C10_ValidUntilOverwritten ==
    [][\A i \in Instances :
         Constructed(i)'
         => /\ MappingValid(i)'
            /\ \/ InternalAttributesLoaded(i)'
               \/ Constructed(i) /\ ~InternalAttributesLoaded(i)
               \/ /\ ret'.op = "setattr"
                  /\ ret'.name = "INTERNAL_ATTRIBUTES"
                  /\ ~Truthy(ret'.val)]_vars

C10_Witness ==
    /\ ret.op = "iter" /\ nwrites > 0
    /\ "EXTRA" \in ret.keys
    /\ "STATE_ENCRYPTION_KEY" \notin DOMAIN document
    /\ mandatory_dict_keys \subseteq ret.keys

====
